---------------------------- MODULE Spec2Model ----------------------------
(***************************************************************************)
(* A model of the athle.fr competition scraper (src/athle.py): the listing *)
(* pagination / batch driver (scrape_competitions), the listing parser     *)
(* (parse_competitions), the detail parser (parse_detail_page) and the     *)
(* detail enrichment driver (scrape_detail_pages).                         *)
(*                                                                         *)
(* Text is modelled as a sequence of symbols.  A symbol is a TLA+ string   *)
(* standing for one lexical unit of the text (a label word, a separator, a *)
(* blank, an address).  The empty Python string is the empty sequence.     *)
(* An optional attribute of a markup element is << >> when absent and      *)
(* <<value>> when present.                                                 *)
(***************************************************************************)
EXTENDS Integers, Sequences, FiniteSets, TLC

VARIABLES
    pc,                   \* position of the running driver
    params,               \* query parameters: frmdate1, frmdate2 as <<y, m, d>>
    batch_mode,           \* argument of scrape_competitions
    batch_days,           \* argument of scrape_competitions
    end_dt,               \* parsed end date (proleptic Gregorian ordinal)
    current_start,        \* start of the current batch (ordinal)
    current_end,          \* end of the current batch (ordinal)
    batch_params,         \* query parameters of the current batch
    batch_idx,            \* 1-based number of the current batch
    batches,              \* the (frmdate1, frmdate2) queries generated so far
    page,                 \* page number of the next listing fetch
    all_competitions,     \* accumulator of scrape_competitions
    net,                  \* the requests and sleeps issued so far, in order
    competitions,         \* argument of scrape_detail_pages (mutated in place)
    original,             \* the argument of scrape_detail_pages as it was passed
    updated_competitions, \* accumulator of scrape_detail_pages
    idx,                  \* loop index of scrape_detail_pages (1-based here)
    html,                 \* the detail page handed to parse_detail_page
    detail_data           \* the mapping parse_detail_page returned

vars == <<pc, params, batch_mode, batch_days, end_dt, current_start,
          current_end, batch_params, batch_idx, batches, page, all_competitions, net, competitions, original,
          updated_competitions, idx, html, detail_data>>

listingVars == <<params, batch_mode, batch_days, end_dt, current_start,
                 current_end, batch_params, batch_idx, batches, page, all_competitions>>

detailVars == <<competitions, original, updated_competitions, idx>>

parseVars == <<html, detail_data>>

-----------------------------------------------------------------------------
(* Program constants *)

COMPETITIONS_PER_PAGE == 250

DEFAULT_DELAY == 1

CONTACT_MAX == 100

MIN_CELLS == 7

-----------------------------------------------------------------------------
(* Bounds of the model *)

\* Listing pages a query can have on the site: the page numbered MaxPage is
\* never a full one.
MaxPage == 2

\* Longest date range tried, in days from start to end.
MaxSpan == 4

\* Largest batch_days tried on the short ranges.
MaxBatchDays == 2

\* Longest input of scrape_detail_pages.
MaxRecords == 3

\* Most child nodes in the practical-info section of a detail page.
MaxNodes == 2

\* Most event cards in the events section of a detail page.
MaxCards == 2

-----------------------------------------------------------------------------
(* Text helpers: Python str operations on symbol sequences *)

WhiteSpace == {" ", "\n"}

RECURSIVE LStrip(_)
LStrip(s) ==
    IF s = << >> \/ Head(s) \notin WhiteSpace THEN s ELSE LStrip(Tail(s))

RECURSIVE RStrip(_)
RStrip(s) ==
    IF s = << >> \/ s[Len(s)] \notin WhiteSpace
    THEN s
    ELSE RStrip(SubSeq(s, 1, Len(s) - 1))

\* str.strip()
Strip(s) == RStrip(LStrip(s))

Min(a, b) == IF a <= b THEN a ELSE b

\* sub in s
Contains(s, sub) ==
    \E i \in 1..(Len(s) - Len(sub) + 1) : SubSeq(s, i, i + Len(sub) - 1) = sub

\* s.startswith(sub)
StartsWith(s, sub) ==
    Len(s) >= Len(sub) /\ SubSeq(s, 1, Len(sub)) = sub

\* first index at which sub occurs in s, 0 when it does not occur
Find(s, sub) ==
    IF Contains(s, sub)
    THEN CHOOSE i \in 1..(Len(s) - Len(sub) + 1) :
            /\ SubSeq(s, i, i + Len(sub) - 1) = sub
            /\ \A j \in 1..(i - 1) : SubSeq(s, j, j + Len(sub) - 1) # sub
    ELSE 0

\* s.split(sep, 1)[1], for a one-symbol separator that occurs in s
AfterFirst(s, sep) == SubSeq(s, Find(s, <<sep>>) + 1, Len(s))

\* s.replace(sym, '') for a one-symbol pattern
RECURSIVE Remove(_, _)
Remove(s, sym) ==
    IF s = << >> THEN << >>
    ELSE IF Head(s) = sym THEN Remove(Tail(s), sym)
    ELSE <<Head(s)>> \o Remove(Tail(s), sym)

LowerSym(c) ==
    CASE c = "Stade" -> "stade"
      [] c = "Email" -> "email"
      [] c = "EMAIL" -> "email"
      [] OTHER -> c

\* s.lower()
Lower(s) == [i \in 1..Len(s) |-> LowerSym(s[i])]

\* sep.join(parts)
RECURSIVE Join(_, _)
Join(sep, parts) ==
    IF parts = << >> THEN << >>
    ELSE IF Len(parts) = 1 THEN parts[1]
    ELSE parts[1] \o sep \o Join(sep, Tail(parts))

-----------------------------------------------------------------------------
(* Calendar: datetime.strptime / strftime with "%Y-%m-%d", timedelta(days)  *)
(* A date string YYYY-MM-DD is the triple <<y, m, d>>; a datetime at        *)
(* midnight is its proleptic Gregorian ordinal (day 1 is 0001-01-01).       *)

IsLeap(y) == y % 4 = 0 /\ (y % 100 # 0 \/ y % 400 = 0)

DaysBeforeYear(y) ==
    (y - 1) * 365 + ((y - 1) \div 4) - ((y - 1) \div 100) + ((y - 1) \div 400)

DaysBeforeMonth(y, m) ==
    <<0, 31, 59, 90, 120, 151, 181, 212, 243, 273, 304, 334>>[m]
        + (IF m > 2 /\ IsLeap(y) THEN 1 ELSE 0)

\* datetime.strptime(s, "%Y-%m-%d"): the ordinal of a valid date string
strptime(s) == DaysBeforeYear(s[1]) + DaysBeforeMonth(s[1], s[2]) + s[3]

\* dt.strftime("%Y-%m-%d"): year, month and day of an ordinal
strftime(n) ==
    LET n0   == n - 1
        n400 == n0 \div 146097
        r400 == n0 % 146097
        n100 == r400 \div 36524
        r100 == r400 % 36524
        n4   == r100 \div 1461
        r4   == r100 % 1461
        n1   == r4 \div 365
        r1   == r4 % 365
        year == n400 * 400 + 1 + n100 * 100 + n4 * 4 + n1
    IN  IF n1 = 4 \/ n100 = 4
        THEN <<year - 1, 12, 31>>
        ELSE LET guess == (r1 + 50) \div 32
                 month == IF DaysBeforeMonth(year, guess) > r1
                          THEN guess - 1 ELSE guess
             IN  <<year, month, r1 - DaysBeforeMonth(year, month) + 1>>

-----------------------------------------------------------------------------
(* Listing markup and the listing parser *)

SITE == <<"https://www.athle.fr">>

BASE_URL == <<"https://www.athle.fr/bases/liste.aspx">>

Digits == {"17", "42"}

\* A table cell: its text nodes, the title of its first titled link and the
\* href of its first link (each << >> when there is none).
Cell(text, title, href) == [text |-> text, title |-> title, href |-> href]

\* re.search(r'numéro : (\d+)', title): group 1 of the leftmost match, as an
\* optional value
IdMatch(title) ==
    LET hits == {i \in 1..(Len(title) - 1) :
                    title[i] = "numéro : " /\ title[i + 1] \in Digits}
    IN  IF hits = {} THEN << >>
        ELSE <<<<title[(CHOOSE i \in hits : \A j \in hits : i <= j) + 1]>>>>

\* The text of an element is the sequence of its text nodes, in document
\* order.  element.get_text(): the text nodes, concatenated.
RECURSIVE get_text(_)
get_text(nodes) ==
    IF nodes = << >> THEN << >> ELSE Head(nodes) \o get_text(Tail(nodes))

\* element.get_text(strip=True): the text nodes, each stripped, concatenated
RECURSIVE get_text_strip(_)
get_text_strip(nodes) ==
    IF nodes = << >> THEN << >>
    ELSE Strip(Head(nodes)) \o get_text_strip(Tail(nodes))

\* The text nodes that are not blank, each stripped.
RECURSIVE StrippedNodes(_)
StrippedNodes(nodes) ==
    IF nodes = << >> THEN << >>
    ELSE IF Strip(Head(nodes)) = << >> THEN StrippedNodes(Tail(nodes))
    ELSE <<Strip(Head(nodes))>> \o StrippedNodes(Tail(nodes))

\* element.get_text(separator='\n', strip=True)
get_text_sep(nodes) == Join(<<"\n">>, StrippedNodes(nodes))

\* The record parse_competitions builds from one row with at least 7 cells.
Competition(cells, pg) ==
    LET title   == cells[1].title
        has_ttl == title # << >> /\ title[1] # << >>
        link    == cells[7].href
        href    == IF link # << >> /\ link[1] # << >> THEN link[1] ELSE << >>
        url     == IF StartsWith(href, <<"/">>) THEN SITE \o href ELSE href
    IN  [Competition_ID    |-> IF has_ttl /\ IdMatch(title[1]) # << >>
                               THEN IdMatch(title[1])[1] ELSE << >>,
         Date              |-> get_text_strip(cells[1].text),
         Event             |-> get_text_strip(cells[2].text),
         Location          |-> get_text_strip(cells[3].text),
         Type              |-> get_text_strip(cells[4].text),
         Level             |-> get_text_strip(cells[5].text),
         Detail_URL        |-> url,
         Page              |-> pg,
         Organizer_Name    |-> << >>,
         Organizer_Address |-> << >>,
         Organizer_Phone   |-> << >>,
         Organizer_Email   |-> << >>,
         Organizer_Website |-> << >>,
         Stadium_Address   |-> << >>,
         Competition_Code  |-> << >>,
         Contact_Person    |-> << >>,
         Events_List       |-> << >>,
         Events_Count      |-> 0]

\* The rows parse_competitions does not skip.
HasCells(row) == Len(row) >= MIN_CELLS

\* parse_competitions(html, page): html is the sequence of the page's
\* competition rows, each the sequence of its cells
parse_competitions(rows, pg) ==
    LET kept == SelectSeq(rows, HasCells)
    IN  [i \in 1..Len(kept) |-> Competition(kept[i], pg)]

-----------------------------------------------------------------------------
(* The listing site: what a GET of one listing page can answer *)

\* The text of a date as the listing shows it.
DateText(d) == <<ToString(d[3]), "/", ToString(d[2])>>

\* Row i of a listing page answering a query that starts on date d: a
\* well-formed competition row.  Rows differ in their event text, and in
\* whether and how they link to a detail page.
ListingRow(d, i) ==
    <<Cell(<<<<" ">> \o DateText(d) \o <<" ">>>>,
           <<<<"Compétition", "numéro : ", IF i % 2 = 0 THEN "17" ELSE "42">>>>,
           << >>),
      Cell(<<<<"Meeting", ToString(i)>>>>, << >>, << >>),
      Cell(<<<<"Paris">>>>, << >>, << >>),
      Cell(<<<<"Piste">>>>, << >>, << >>),
      Cell(<<<<"Rég">>>>, << >>, << >>),
      Cell(<< >>, << >>, << >>),
      Cell(<< >>, << >>,
           IF i % 3 = 0 THEN << >>
           ELSE IF i % 3 = 1 THEN <<<<"/", "competitions/", ToString(i)>>>>
           ELSE <<<<"https://www.athle.fr", "/", "competitions/", ToString(i)>>>>)>>

\* A row with too few cells (a header or spacer row flagged as a competition).
ShortRow == <<Cell(<<<<"x">>>>, << >>, << >>), Cell(<<<<"y">>>>, << >>, << >>)>>

\* The markup of a page of n rows; with short = TRUE its first row is short.
ListingHtml(d, n, short) ==
    [i \in 1..n |-> IF short /\ i = 1 THEN ShortRow ELSE ListingRow(d, i)]

\* The answers to the GET of page p of a query that starts on date d: a
\* transport or status failure, an empty page, a full page, or a page whose
\* first row is short (one record fewer than a full page).  The site has at
\* most MaxPage pages for a query, so page MaxPage is not a full one.
Responses(d, p) ==
    {[ok |-> FALSE, rows |-> << >>]}
        \cup {[ok |-> TRUE, rows |-> ListingHtml(d, n, FALSE)] :
                n \in {0} \cup (IF p < MaxPage THEN {COMPETITIONS_PER_PAGE} ELSE {})}
        \cup {[ok |-> TRUE, rows |-> ListingHtml(d, COMPETITIONS_PER_PAGE, TRUE)]}

\* An entry of net: a GET with its query and what it answered, or a sleep.
Get(url, query, ok, n) ==
    [op |-> "get", url |-> url, query |-> query, ok |-> ok, n |-> n, secs |-> 0]

Sleep(secs) ==
    [op |-> "sleep", url |-> << >>, query |-> << >>, ok |-> TRUE, n |-> 0,
     secs |-> secs]

\* scrape_page(_session, params, page) on answer resp: <<competitions, success>>
scrape_page(resp, pg) ==
    IF resp.ok THEN <<parse_competitions(resp.rows, pg), TRUE>>
    ELSE <<<< >>, FALSE>>

-----------------------------------------------------------------------------
(* scrape_competitions *)

\* The query of a listing GET: the date range and frmposition.
Query(prm, pg) == <<prm.frmdate1, prm.frmdate2, pg>>

\* BatchEnd without the clamp to the end of the range.
BatchEnd_NoClamp(cs, bd, e) == cs + bd

\* BatchEnd that counts the start day among the bd days of the batch.
BatchEnd_Inclusive(cs, bd, e) == Min(cs + bd - 1, e)

\* The end of the batch that starts at cs.
BatchEnd(cs, bd, e) == Min(cs + bd, e)

\* The start of the batch after the one that ends at ce.
NextStart(ce) == ce + 1

\* IsLastPage that only an empty page satisfies.
IsLastPage_OnlyEmpty(comp) == Len(comp) = 0

\* IsLastPage that a full page satisfies too.
IsLastPage_OffByOne(comp) == Len(comp) <= COMPETITIONS_PER_PAGE

\* The test that ends a pagination loop after a page was appended.
IsLastPage(comp) == Len(comp) < COMPETITIONS_PER_PAGE

\* NextBatch that leaves the batch loop as well.
NextBatch_Return ==
    /\ current_start' = NextStart(current_end)
    /\ batch_idx' = batch_idx + 1
    /\ pc' = "done"

\* What follows a batch's pagination loop.
NextBatch ==
    /\ current_start' = NextStart(current_end)
    /\ batch_idx' = batch_idx + 1
    /\ pc' = "batch_loop"

\* Entry of the function: the accumulator is created and, in batch mode, the
\* dates are parsed; in normal mode the page counter is set.
Start ==
    /\ pc = "start"
    /\ all_competitions' = << >>
    /\ IF batch_mode
       THEN /\ end_dt' = strptime(params.frmdate2)
            /\ current_start' = strptime(params.frmdate1)
            /\ batch_idx' = 1
            /\ page' = page
            /\ pc' = "batch_loop"
       ELSE /\ page' = 1
            /\ pc' = "normal_page"
            /\ UNCHANGED <<end_dt, current_start, batch_idx>>
    /\ UNCHANGED <<params, batch_mode, batch_days, current_end, batch_params,
                   batches, net, detailVars, parseVars>>

\* The head of the batch loop: the test, and the batch's range and parameters.
BatchBegin ==
    /\ pc = "batch_loop"
    /\ IF current_start <= end_dt
       THEN LET ce == BatchEnd(current_start, batch_days, end_dt)
                bp == [params EXCEPT !.frmdate1 = strftime(current_start),
                                     !.frmdate2 = strftime(ce)]
            IN  /\ current_end' = ce
                /\ batch_params' = bp
                /\ batches' = Append(batches, <<bp.frmdate1, bp.frmdate2>>)
                /\ page' = 1
                /\ pc' = "batch_page"
       ELSE /\ pc' = "done"
            /\ UNCHANGED <<current_end, batch_params, batches, page>>
    /\ UNCHANGED <<params, batch_mode, batch_days, end_dt, current_start,
                   batch_idx, all_competitions, net, detailVars, parseVars>>

\* One turn of a batch's pagination loop, with what follows the loop when the
\* turn ends it.
BatchPage ==
    /\ pc = "batch_page"
    /\ \E resp \in Responses(batch_params.frmdate1, page) :
        LET got  == scrape_page(resp, page)
            comp == got[1]
            req  == Get(BASE_URL, Query(batch_params, page), got[2], Len(comp))
        IN  IF ~got[2] \/ comp = << >>
            THEN /\ net' = Append(net, req)
                 /\ NextBatch
                 /\ UNCHANGED <<all_competitions, page>>
            ELSE /\ all_competitions' = all_competitions \o comp
                 /\ IF IsLastPage(comp)
                    THEN /\ net' = Append(net, req)
                         /\ NextBatch
                         /\ page' = page
                    ELSE /\ page' = page + 1
                         /\ net' = net \o <<req, Sleep(DEFAULT_DELAY)>>
                         /\ UNCHANGED <<current_start, batch_idx, pc>>
    /\ UNCHANGED <<params, batch_mode, batch_days, end_dt, current_end,
                   batch_params, batches, detailVars, parseVars>>

\* One turn of the pagination loop of normal mode.
NormalPage ==
    /\ pc = "normal_page"
    /\ \E resp \in Responses(params.frmdate1, page) :
        LET got  == scrape_page(resp, page)
            comp == got[1]
            req  == Get(BASE_URL, Query(params, page), got[2], Len(comp))
        IN  IF ~got[2] \/ comp = << >>
            THEN /\ net' = Append(net, req)
                 /\ pc' = "done"
                 /\ UNCHANGED <<all_competitions, page>>
            ELSE /\ all_competitions' = all_competitions \o comp
                 /\ IF IsLastPage(comp)
                    THEN /\ net' = Append(net, req)
                         /\ pc' = "done"
                         /\ page' = page
                    ELSE /\ page' = page + 1
                         /\ net' = net \o <<req, Sleep(DEFAULT_DELAY)>>
                         /\ pc' = pc
    /\ UNCHANGED <<params, batch_mode, batch_days, end_dt, current_start,
                   current_end, batch_params, batch_idx, batches, detailVars,
                   parseVars>>

\* The date ranges and batch lengths tried: the short ranges that start on
\* 2025-12-30 or the day after, and the range and batch length the form
\* proposes.
FirstDay == <<2025, 12, 30>>

DefaultRange == <<<<2025, 12, 21>>, <<2026, 1, 31>>, 30>>

Ranges ==
    {<<strftime(strptime(FirstDay) + a), strftime(strptime(FirstDay) + a + n), b>> :
        a \in 0..1, n \in 0..MaxSpan, b \in 1..MaxBatchDays}
        \cup {DefaultRange}

\* The detail page with no section, no link and no card.
NoPage == [info |-> << >>, outside |-> << >>, card |-> << >>, events |-> << >>]

Init ==
    /\ pc = "start"
    /\ batch_mode \in BOOLEAN
    /\ \E r \in (IF batch_mode THEN Ranges ELSE {DefaultRange}) :
        /\ params = [frmdate1 |-> r[1], frmdate2 |-> r[2]]
        /\ batch_days = r[3]
    /\ batch_params = params
    /\ end_dt = 0
    /\ current_start = 0
    /\ current_end = 0
    /\ batch_idx = 0
    /\ batches = << >>
    /\ page = 0
    /\ all_competitions = << >>
    /\ net = << >>
    /\ competitions = << >>
    /\ original = << >>
    /\ updated_competitions = << >>
    /\ idx = 0
    /\ html = NoPage
    /\ detail_data = << >>

Next == Start \/ BatchBegin \/ BatchPage \/ NormalPage

Spec == Init /\ [][Next]_vars

-----------------------------------------------------------------------------
(* Detail markup and the detail parser *)

(* A detail page is a record:                                              *)
(*   info    - optional section#infoPratique: the sequence of its child    *)
(*             elements, each [tag, text, href] with the element's text    *)
(*             nodes and the optional href of the link it is or holds;     *)
(*   outside - the hrefs of the links outside that section;                *)
(*   card    - optional summary div.club-card: its text nodes;             *)
(*   events  - optional section#epreuves: the sequence of its div.club-card*)
(*             elements, each [heading, body] with the optional text nodes *)
(*             of its h3.text-normal and the text nodes after it.          *)
(* The summary card stands before the events section in the document.      *)

EmailTokens == {"a@b.c", "x@y.z"}

Node(tag, text, href) == [tag |-> tag, text |-> text, href |-> href]

EventCard(heading, body) == [heading |-> heading, body |-> body]

\* dict[key] = value
Put(d, key, value) == [k \in DOMAIN d \cup {key} |-> IF k = key THEN value ELSE d[k]]

\* re.search(r'[\w\.-]+@[\w\.-]+\.\w+', text): the leftmost address, optional
EmailSearch(text) ==
    LET hits == {i \in DOMAIN text : text[i] \in EmailTokens}
    IN  IF hits = {} THEN << >>
        ELSE <<<<text[CHOOSE i \in hits : \A j \in hits : i <= j]>>>>

\* The first index from i on that holds no white space.
RECURSIVE SkipSpace(_, _)
SkipSpace(text, i) ==
    IF i <= Len(text) /\ text[i] \in WhiteSpace THEN SkipSpace(text, i + 1) ELSE i

\* re.search(r'Email\s*[:\-]?\s*([\w\.-]+@[\w\.-]+\.\w+)', text, re.IGNORECASE):
\* group 1 of the leftmost match, optional
LabelledEmailAt(text, i) ==
    LET a == SkipSpace(text, i + 1)
        b == IF a <= Len(text) /\ text[a] \in {":", "-"}
             THEN SkipSpace(text, a + 1) ELSE a
    IN  IF LowerSym(text[i]) = "email" /\ b <= Len(text) /\ text[b] \in EmailTokens
        THEN <<<<text[b]>>>> ELSE << >>

LabelledEmailSearch(text) ==
    LET hits == {i \in DOMAIN text : LabelledEmailAt(text, i) # << >>}
    IN  IF hits = {} THEN << >>
        ELSE LabelledEmailAt(text, CHOOSE i \in hits : \A j \in hits : i <= j)

\* text.split(':', 1)[1].strip() if ':' in text else ''
AfterColon(text) ==
    IF Contains(text, <<":">>) THEN Strip(AfterFirst(text, ":")) ELSE << >>

\* Method 1: the address of the first mailto link of the section that has one.
IsMailto(node) == node.href # << >> /\ Contains(node.href[1], <<"mailto:">>)

LinkAddress(node) == Strip(Remove(node.href[1], "mailto:"))

RECURSIVE EmailFromLinks(_, _)
EmailFromLinks(d, nodes) ==
    IF nodes = << >> THEN d
    ELSE IF IsMailto(Head(nodes)) /\ LinkAddress(Head(nodes)) # << >>
         THEN Put(d, "Organizer_Email", LinkAddress(Head(nodes)))
         ELSE EmailFromLinks(d, Tail(nodes))

\* The Email branch is open to a paragraph only while no address is recorded.
EmailBranchOpen_Always(d) == TRUE

EmailBranchOpen(d) == "Organizer_Email" \notin DOMAIN d

\* Method 2, one paragraph: the branch its text selects, applied to d.  The
\* label written with the typographic apostrophe is the symbol
\* "Nom de l(U+2019)organisateur".
ScanParagraph(d, text) ==
    IF \/ Contains(text, <<"Nom de l(U+2019)organisateur">>)
       \/ Contains(text, <<"Nom de l'organisateur">>)
    THEN Put(d, "Organizer_Name", AfterColon(text))
    ELSE IF Contains(text, <<"Adresse">>) /\ ~Contains(Lower(text), <<"stade">>)
    THEN Put(d, "Organizer_Address", AfterColon(text))
    ELSE IF Contains(text, <<"Téléphone">>)
    THEN Put(d, "Organizer_Phone", AfterColon(text))
    ELSE IF Contains(text, <<"Email">>) /\ EmailBranchOpen(d)
    THEN LET email_text == AfterColon(text)
         IN  IF EmailSearch(email_text) # << >>
             THEN Put(d, "Organizer_Email", EmailSearch(email_text)[1])
             ELSE IF email_text # << >> /\ email_text # <<"-">>
             THEN Put(d, "Organizer_Email", email_text)
             ELSE d
    ELSE IF Contains(text, <<"Site internet">>)
    THEN IF AfterColon(text) # << >> /\ AfterColon(text) # <<"-">>
         THEN Put(d, "Organizer_Website", AfterColon(text))
         ELSE d
    ELSE IF Contains(text, <<"Adresse", " ", "du", " ", "stade">>)
    THEN Put(d, "Stadium_Address", AfterColon(text))
    ELSE d

\* Method 2: the paragraphs of the section, in document order.
RECURSIVE ScanParagraphs(_, _)
ScanParagraphs(d, nodes) ==
    IF nodes = << >> THEN d
    ELSE ScanParagraphs(
            IF Head(nodes).tag = "p"
            THEN ScanParagraph(d, get_text_strip(Head(nodes).text))
            ELSE d,
            Tail(nodes))

\* The text nodes of the section, in document order.
RECURSIVE SectionText(_)
SectionText(nodes) ==
    IF nodes = << >> THEN << >>
    ELSE get_text(Head(nodes).text) \o SectionText(Tail(nodes))

\* Method 3: the fallback search over the text of the whole section.
FallbackEmail(d, info) ==
    IF "Organizer_Email" \notin DOMAIN d \/ d["Organizer_Email"] = << >>
    THEN IF info # << >> /\ LabelledEmailSearch(SectionText(info[1])) # << >>
         THEN Put(d, "Organizer_Email",
                  Strip(LabelledEmailSearch(SectionText(info[1]))[1]))
         ELSE d
    ELSE d

\* The organizer fields: methods 1 to 3.
OrganizerFields(info) ==
    LET d1 == IF info # << >> THEN EmailFromLinks(<< >>, info[1]) ELSE << >>
        d2 == IF info # << >> THEN ScanParagraphs(d1, info[1]) ELSE d1
    IN  FallbackEmail(d2, info)

\* re.search(r'Code compétition\s*:\s*(\d+)', text): group 1, optional
CodeAt(text, i) ==
    LET a == SkipSpace(text, i + 1)
        b == SkipSpace(text, a + 1)
    IN  IF /\ text[i] = "Code compétition"
           /\ a <= Len(text) /\ text[a] = ":"
           /\ b <= Len(text) /\ text[b] \in Digits
        THEN <<<<text[b]>>>> ELSE << >>

CodeSearch(text) ==
    LET hits == {i \in DOMAIN text : CodeAt(text, i) # << >>}
    IN  IF hits = {} THEN << >>
        ELSE CodeAt(text, CHOOSE i \in hits : \A j \in hits : i <= j)

\* The last index of the line that index i is on.
RECURSIVE LineEnd(_, _)
LineEnd(text, i) ==
    IF i < Len(text) /\ text[i + 1] # "\n" THEN LineEnd(text, i + 1) ELSE i

\* The first index after i that holds no line break.
RECURSIVE SkipBreaks(_, _)
SkipBreaks(text, i) ==
    IF i <= Len(text) /\ text[i] = "\n" THEN SkipBreaks(text, i + 1) ELSE i

\* re.search(r'Personnes à contacter.*\n*(.+)', text): group 1, optional.
\* The label's line is skipped and the next line is the group; when no line
\* follows, the group is the last symbol of the label's line.
ContactAt(text, i) ==
    LET e == LineEnd(text, i)
        f == SkipBreaks(text, e + 1)
    IN  IF text[i] # "Personnes à contacter" THEN << >>
        ELSE IF f <= Len(text) THEN <<SubSeq(text, f, LineEnd(text, f))>>
        ELSE IF e > i THEN <<<<text[e]>>>>
        ELSE << >>

ContactSearch(text) ==
    LET hits == {i \in DOMAIN text : ContactAt(text, i) # << >>}
    IN  IF hits = {} THEN << >>
        ELSE ContactAt(text, CHOOSE i \in hits : \A j \in hits : i <= j)

\* s[:n]
Truncate(s, n) == SubSeq(s, 1, Min(Len(s), n))

\* The text nodes of an event card.
CardNodes(c) == (IF c.heading = << >> THEN << >> ELSE c.heading[1]) \o c.body

\* soup.find('div', class_='club-card'): the first card of the document
FirstClubCard(pg) ==
    IF pg.card # << >> THEN pg.card
    ELSE IF pg.events # << >> /\ pg.events[1] # << >>
    THEN <<CardNodes(pg.events[1][1])>>
    ELSE << >>

\* The competition code and the contact person, from the first card.
CardFields(d, pg) ==
    IF FirstClubCard(pg) = << >> THEN d
    ELSE LET card_text == get_text_sep(FirstClubCard(pg)[1])
             d1 == IF CodeSearch(card_text) # << >>
                   THEN Put(d, "Competition_Code", Strip(CodeSearch(card_text)[1]))
                   ELSE d
         IN  IF ContactSearch(card_text) # << >>
             THEN Put(d1, "Contact_Person",
                      Truncate(Strip(ContactSearch(card_text)[1]), CONTACT_MAX))
             ELSE d1

\* events_list: the heading texts of the event cards that have a heading.
RECURSIVE EventNames(_)
EventNames(cards) ==
    IF cards = << >> THEN << >>
    ELSE IF Head(cards).heading = << >> THEN EventNames(Tail(cards))
    ELSE <<get_text_strip(Head(cards).heading[1])>> \o EventNames(Tail(cards))

EnrichmentKeys ==
    {"Organizer_Name", "Organizer_Address", "Organizer_Phone", "Organizer_Email",
     "Organizer_Website", "Stadium_Address", "Competition_Code", "Contact_Person",
     "Events_List", "Events_Count"}

\* Ensure all fields exist.
WithDefaults(d) ==
    [k \in EnrichmentKeys |->
        IF k \in DOMAIN d THEN d[k]
        ELSE IF k = "Events_Count" THEN 0 ELSE << >>]

\* parse_detail_page(html)
parse_detail_page(pg) ==
    LET events_list == IF pg.events # << >> THEN EventNames(pg.events[1]) ELSE << >>
        d1 == CardFields(OrganizerFields(pg.info), pg)
        d2 == Put(d1, "Events_List", Join(<<";", " ">>, events_list))
        d3 == Put(d2, "Events_Count", Len(events_list))
    IN  WithDefaults(d3)

-----------------------------------------------------------------------------
(* The detail pages tried *)

\* The sequences over S of length at most n.
SeqsUpTo(S, n) == UNION {[1..k -> S] : k \in 0..n}

Paragraphs ==
    {Node("p", <<<<"Nom de l'organisateur", " ", ":", " ", "Club A">>>>, << >>),
     Node("p", <<<<"Nom de l(U+2019)organisateur", ":", "Club B">>>>, << >>),
     Node("p", <<<<"Adresse", " ", ":", " ", "1 rue X">>>>, << >>),
     Node("p", <<<<"Adresse", " ", "du", " ", "stade", " ", ":", " ", "Parc Y">>>>, << >>),
     Node("p", <<<<"Adresse", " ", "du", " ", "Stade", ":", "Parc Z">>>>, << >>),
     Node("p", <<<<"Téléphone", ":", " ", "0102">>>>, << >>),
     Node("p", <<<<"Téléphone", ":", "0102", " ">>, <<"Site internet", ":", "club.fr">>>>,
          << >>),
     Node("p", <<<<"Email", " ", ":", " ", "x@y.z">>>>, << >>),
     Node("p", <<<<"Email", " ", ":", " ">>, <<"a@b.c">>>>, <<<<"mailto:", "a@b.c">>>>),
     Node("p", <<<<"Email", ":", "-">>>>, << >>),
     Node("p", <<<<"Email", ":", "voir", " ", "le", " ", "site">>>>, << >>),
     Node("p", <<<<"Email", " ", "x@y.z">>>>, << >>),
     Node("p", <<<<"Adresse", " ", "Email", ":", "x@y.z">>>>, << >>),
     Node("p", <<<<"Site internet", ":", "-">>>>, << >>),
     Node("p", <<<<"Site internet", " ", ":", " ", "club.fr">>>>, << >>)}

Anchors ==
    {Node("a", <<<<"Contact">>>>, <<<<"mailto:", " ", "a@b.c", " ">>>>),
     Node("a", <<<<"Contact">>>>, <<<<"mailto:">>>>),
     Node("a", <<<<"Plan">>>>, <<<<"https://plan.fr">>>>)}

\* The practical-info sections: absent, or up to MaxNodes child elements.
Infos == {<< >>} \cup {<<nodes>> : nodes \in SeqsUpTo(Paragraphs \cup Anchors, MaxNodes)}

\* The links outside the practical-info section.
Outsides == {<< >>, <<<<"mailto:", "x@y.z">>>>}

\* The summary cards: absent, or its text nodes.
Cards ==
    {<< >>,
     <<<<<<"Code compétition", " ", ":", " ", "17">>,
         <<"Personnes à contacter", " ", ":">>, <<" ", "Jean", " ", "Dupont", " ">>>>>>,
     <<<<<<"Code compétition", ":", "x">>, <<"Personnes à contacter", ":", "Anne">>>>>>,
     <<<<<<"Personnes à contacter">>>>>>}

Headings ==
    {<< >>,
     <<<<<<"100m">>>>>>,
     <<<<<<" ", "Saut", " ", "en", " ", "longueur", " ">>>>>>,
     <<<<<<"Lancer", ";", " ", "poids">>>>>>,
     <<<<<<" ">>>>>>}

Bodies == {<< >>, <<<<"Code compétition", ":", "42">>>>}

\* The events sections: absent, or up to MaxCards event cards.
EventSections ==
    {<< >>} \cup {<<cards>> :
        cards \in SeqsUpTo({EventCard(h, b) : h \in Headings, b \in Bodies}, MaxCards)}

Page(info, outside, card, events) ==
    [info |-> info, outside |-> outside, card |-> card, events |-> events]

\* A page with every section, used where one part of the page is varied.
DefaultInfo ==
    <<<<Node("p", <<<<"Nom de l'organisateur", " ", ":", " ", "Club A">>>>, << >>),
        Node("p", <<<<"Email", " ", ":", " ">>, <<"a@b.c">>>>, <<<<"mailto:", "a@b.c">>>>)>>>>

DefaultCard == <<<<<<"Code compétition", " ", ":", " ", "17">>>>>>

DefaultEvents ==
    <<<<EventCard(<<<<<<"100m">>>>>>, << >>), EventCard(<<<<<<"Poids">>>>>>, << >>)>>>>

\* The detail pages handed to parse_detail_page: every practical-info section
\* with every placement of outside links, and every card with every events
\* section.
DetailPages ==
    {Page(i, o, DefaultCard, DefaultEvents) : i \in Infos, o \in Outsides}
        \cup {Page(DefaultInfo, << >>, c, e) : c \in Cards, e \in EventSections}

\* One call of parse_detail_page.
ParseDetail ==
    /\ pc = "parse"
    /\ detail_data' = parse_detail_page(html)
    /\ pc' = "parsed"
    /\ UNCHANGED <<html, net, listingVars, detailVars>>

InitParse ==
    /\ pc = "parse"
    /\ html \in DetailPages
    /\ detail_data = << >>
    /\ batch_mode = FALSE
    /\ params = [frmdate1 |-> DefaultRange[1], frmdate2 |-> DefaultRange[2]]
    /\ batch_days = DefaultRange[3]
    /\ batch_params = params
    /\ end_dt = 0
    /\ current_start = 0
    /\ current_end = 0
    /\ batch_idx = 0
    /\ batches = << >>
    /\ page = 0
    /\ all_competitions = << >>
    /\ net = << >>
    /\ competitions = << >>
    /\ original = << >>
    /\ updated_competitions = << >>
    /\ idx = 0

NextParse == ParseDetail

SpecParse == InitParse /\ [][NextParse]_vars

-----------------------------------------------------------------------------
(* scrape_detail_pages *)

\* The answers to the GET of a detail page: a transport or status failure, or
\* one of three pages: one with every section, one with none, and one whose
\* only event card has a blank heading.
BlankHeadingPage ==
    Page(<< >>, << >>, << >>, <<<<EventCard(<<<<<<" ">>>>>>, << >>)>>>>)

DetailResponses ==
    {[ok |-> FALSE, page |-> NoPage]}
        \cup {[ok |-> TRUE, page |-> pg] :
                pg \in {Page(DefaultInfo, << >>, DefaultCard, DefaultEvents),
                        NoPage, BlankHeadingPage}}

\* scrape_detail_page(_session, url) on answer resp: the mapping, or << >> for
\* None
scrape_detail_page(resp) ==
    IF resp.ok THEN <<parse_detail_page(resp.page)>> ELSE << >>

\* Update that keeps only what d holds and blanks every other key.
Update_Replace(comp, d) ==
    [k \in DOMAIN comp \cup DOMAIN d |-> IF k \in DOMAIN d THEN d[k] ELSE << >>]

\* dict.update
Update(comp, d) ==
    [k \in DOMAIN comp \cup DOMAIN d |-> IF k \in DOMAIN d THEN d[k] ELSE comp[k]]

\* if detail_data: comp.update(detail_data)
Merge(comp, dd) ==
    IF dd # << >> /\ DOMAIN dd[1] # {} THEN Update(comp, dd[1]) ELSE comp

\* HasDetailUrl that holds of every record.
HasDetailUrl_Always(comp) == TRUE

\* comp.get('Detail_URL') is not empty
HasDetailUrl(comp) == comp.Detail_URL # << >>

\* Collect that keeps a record only when its detail page was fetched.
Collect_OnlyOnSuccess(acc, comp, dd) == IF dd = << >> THEN acc ELSE Append(acc, comp)

\* updated_competitions.append(comp) after the fetch
Collect(acc, comp, dd) == Append(acc, comp)

\* Entry of the function: the early return on no records, the accumulator.
DetailStart ==
    /\ pc = "detail_start"
    /\ IF competitions = << >>
       THEN /\ pc' = "done"
            /\ UNCHANGED <<updated_competitions, idx>>
       ELSE /\ updated_competitions' = << >>
            /\ idx' = 1
            /\ pc' = "detail_loop"
    /\ UNCHANGED <<competitions, original, net, listingVars, parseVars>>

\* DetailSkip that sleeps before moving on.
DetailSkip_Sleeps ==
    /\ pc = "detail_loop"
    /\ idx <= Len(competitions)
    /\ ~HasDetailUrl(competitions[idx])
    /\ updated_competitions' = Append(updated_competitions, competitions[idx])
    /\ idx' = idx + 1
    /\ net' = Append(net, Sleep(DEFAULT_DELAY))
    /\ UNCHANGED <<pc, competitions, original, listingVars, parseVars>>

\* One turn of the loop on a record without a detail link.
DetailSkip ==
    /\ pc = "detail_loop"
    /\ idx <= Len(competitions)
    /\ ~HasDetailUrl(competitions[idx])
    /\ updated_competitions' = Append(updated_competitions, competitions[idx])
    /\ idx' = idx + 1
    /\ UNCHANGED <<pc, competitions, original, net, listingVars, parseVars>>

\* One turn of the loop on a record with a detail link.
DetailFetch ==
    /\ pc = "detail_loop"
    /\ idx <= Len(competitions)
    /\ HasDetailUrl(competitions[idx])
    /\ \E resp \in DetailResponses :
        LET dd   == scrape_detail_page(resp)
            comp == Merge(competitions[idx], dd)
        IN  /\ competitions' = [competitions EXCEPT ![idx] = comp]
            /\ updated_competitions' = Collect(updated_competitions, comp, dd)
            /\ net' = net \o <<Get(competitions[idx].Detail_URL, << >>, resp.ok, 0),
                               Sleep(DEFAULT_DELAY)>>
    /\ idx' = idx + 1
    /\ UNCHANGED <<pc, original, listingVars, parseVars>>

\* The end of the loop: the accumulator is returned.
DetailReturn ==
    /\ pc = "detail_loop"
    /\ idx > Len(competitions)
    /\ pc' = "done"
    /\ UNCHANGED <<competitions, original, updated_competitions, idx, net,
                   listingVars, parseVars>>

\* The inputs: the records parse_competitions makes of up to MaxRecords rows,
\* with a site-relative link, an absolute link or no link.
InputRows(ix) == [k \in DOMAIN ix |-> ListingRow(FirstDay, ix[k])]

InitDetail ==
    /\ pc = "detail_start"
    /\ \E ix \in SeqsUpTo(1..3, MaxRecords) :
        competitions = parse_competitions(InputRows(ix), 1)
    /\ original = competitions
    /\ updated_competitions = << >>
    /\ idx = 0
    /\ net = << >>
    /\ html = NoPage
    /\ detail_data = << >>
    /\ batch_mode = FALSE
    /\ params = [frmdate1 |-> DefaultRange[1], frmdate2 |-> DefaultRange[2]]
    /\ batch_days = DefaultRange[3]
    /\ batch_params = params
    /\ end_dt = 0
    /\ current_start = 0
    /\ current_end = 0
    /\ batch_idx = 0
    /\ batches = << >>
    /\ page = 0
    /\ all_competitions = << >>

NextDetail == DetailStart \/ DetailSkip \/ DetailFetch \/ DetailReturn

SpecDetail == InitDetail /\ [][NextDetail]_vars

-----------------------------------------------------------------------------
(* Properties of the listing driver *)

IsGet(e) == e.op = "get"

\* The date range a GET asked for.
Dates(e) == <<e.query[1], e.query[2]>>

\* The indices of the GETs in net.
Gets == {i \in DOMAIN net : IsGet(net[i])}

\* The GET before / after index i in net (0 when there is none).
PrevGet(i) ==
    LET before == {j \in Gets : j < i}
    IN  IF before = {} THEN 0 ELSE CHOOSE j \in before : \A k \in before : k <= j

NextGet(i) ==
    LET after == {j \in Gets : j > i}
    IN  IF after = {} THEN 0 ELSE CHOOSE j \in after : \A k \in after : j <= k

\* The number of records the GETs of net[1..k] answered.
RECURSIVE Fetched(_)
Fetched(k) == IF k = 0 THEN 0 ELSE Fetched(k - 1) + net[k].n

\* The parameters of the query the driver is paginating.
CurrentParams == IF batch_mode THEN batch_params ELSE params

Paginating == pc \in {"batch_page", "normal_page"}

\* C1: a successfully fetched page with fewer than COMPETITIONS_PER_PAGE
\* records ends the pagination of its query: its records are in the result,
\* no later GET asks for the same date range, and the driver is not in that
\* query's pagination loop any more.
C1_ShortPageHaltsPagination ==
    /\ Len(all_competitions) = Fetched(Len(net))
    /\ \A i \in Gets :
        (net[i].ok /\ net[i].n < COMPETITIONS_PER_PAGE) =>
            /\ \A j \in Gets : j > i => Dates(net[j]) # Dates(net[i])
            /\ Paginating =>
                <<CurrentParams.frmdate1, CurrentParams.frmdate2>> # Dates(net[i])

C1_Witness ==
    \E i \in Gets :
        /\ net[i].ok /\ net[i].n > 0 /\ net[i].n < COMPETITIONS_PER_PAGE
        /\ net[i].query[3] = 2
        /\ \E j \in Gets : j > i

\* C2: a successfully fetched page of exactly COMPETITIONS_PER_PAGE records is
\* appended and is followed by the GET of the next page of the same query (or
\* the driver stands right before that GET); every GET asks for page 1 of a
\* query or for the page after the one the previous GET asked for.
C2_FullPageFetchesNextPage ==
    /\ Len(all_competitions) >= Fetched(Len(net))
    /\ \A i \in Gets :
        (net[i].ok /\ net[i].n = COMPETITIONS_PER_PAGE) =>
            IF NextGet(i) = 0
            THEN /\ Paginating
                 /\ page = net[i].query[3] + 1
                 /\ <<CurrentParams.frmdate1, CurrentParams.frmdate2>> = Dates(net[i])
            ELSE /\ Dates(net[NextGet(i)]) = Dates(net[i])
                 /\ net[NextGet(i)].query[3] = net[i].query[3] + 1
    /\ \A j \in Gets :
        \/ net[j].query[3] = 1
        \/ /\ PrevGet(j) # 0
           /\ Dates(net[PrevGet(j)]) = Dates(net[j])
           /\ net[PrevGet(j)].query[3] = net[j].query[3] - 1

C2_Witness ==
    \E i \in Gets :
        /\ net[i].ok /\ net[i].n = COMPETITIONS_PER_PAGE
        /\ NextGet(i) # 0
        /\ net[NextGet(i)].query[3] = 2
        /\ Len(all_competitions) >= COMPETITIONS_PER_PAGE

\* The calendar, day by day, on date triples.
DaysInMonth(y, m) ==
    IF m = 2 /\ IsLeap(y) THEN 29
    ELSE <<31, 28, 31, 30, 31, 30, 31, 31, 30, 31, 30, 31>>[m]

NextDay(d) ==
    IF d[3] < DaysInMonth(d[1], d[2]) THEN <<d[1], d[2], d[3] + 1>>
    ELSE IF d[2] < 12 THEN <<d[1], d[2] + 1, 1>>
    ELSE <<d[1] + 1, 1, 1>>

DateLE(a, b) ==
    \/ a[1] < b[1]
    \/ a[1] = b[1] /\ a[2] < b[2]
    \/ a[1] = b[1] /\ a[2] = b[2] /\ a[3] <= b[3]

\* The days from s to e, both included.
RECURSIVE DaysOf(_, _)
DaysOf(s, e) == IF ~DateLE(s, e) THEN {} ELSE {s} \cup DaysOf(NextDay(s), e)

\* C3: in batch mode, for a range with start <= end, the batches generated
\* partition the range: the first starts at start, each later one starts the
\* day after the previous one's end, none ends after end, and when the driver
\* is done the last ends at end and every day of the range lies in exactly one
\* batch; the range and batch length the form proposes give the two batches
\* [2025-12-21, 2026-01-20] and [2026-01-21, 2026-01-31].
C3_BatchesPartitionRange ==
    (batch_mode /\ DateLE(params.frmdate1, params.frmdate2)) =>
        /\ batches # << >> => batches[1][1] = params.frmdate1
        /\ \A k \in 1..(Len(batches) - 1) :
            batches[k + 1][1] = NextDay(batches[k][2])
        /\ \A k \in DOMAIN batches :
            /\ DateLE(batches[k][1], batches[k][2])
            /\ DateLE(batches[k][2], params.frmdate2)
        /\ pc = "done" =>
            /\ batches # << >>
            /\ batches[Len(batches)][2] = params.frmdate2
            /\ \A day \in DaysOf(params.frmdate1, params.frmdate2) :
                Cardinality({k \in DOMAIN batches :
                    day \in DaysOf(batches[k][1], batches[k][2])}) = 1
            /\ <<params.frmdate1, params.frmdate2, batch_days>> = DefaultRange =>
                batches = << <<<<2025, 12, 21>>, <<2026, 1, 20>>>>,
                             <<<<2026, 1, 21>>, <<2026, 1, 31>>>> >>

C3_Witness ==
    /\ batch_mode
    /\ pc = "done"
    /\ Len(batches) = 3
    /\ batches[1][1][1] = 2025
    /\ batches[3][2][1] = 2026
    /\ batches[3][1] = batches[3][2]

\* The <<Date, Page>> of every record of a sequence.
RecordKeys(recs) == [i \in DOMAIN recs |-> <<recs[i].Date, recs[i].Page>>]

\* What the GETs of net[1..k] put in the result, in the order of the GETs.
RECURSIVE ExpectedKeys(_)
ExpectedKeys(k) ==
    IF k = 0 THEN << >>
    ELSE ExpectedKeys(k - 1)
            \o (IF IsGet(net[k])
                THEN [i \in 1..net[k].n |->
                        <<DateText(net[k].query[1]), net[k].query[3]>>]
                ELSE << >>)

\* The date ranges of the GETs of page 1 in net[1..k], in order.
RECURSIVE FirstPages(_)
FirstPages(k) ==
    IF k = 0 THEN << >>
    ELSE FirstPages(k - 1)
            \o (IF IsGet(net[k]) /\ net[k].query[3] = 1
                THEN <<Dates(net[k])>> ELSE << >>)

\* C4: in batch mode a failed or empty page ends only its batch's pagination:
\* the result is always the concatenation, in batch and page order, of what
\* every GET so far answered; page 1 of every batch generated is fetched, in
\* batch order; and when the driver is done the batches reach the end of the
\* range.
C4_BatchFailureIsLocal ==
    batch_mode =>
        /\ RecordKeys(all_competitions) = ExpectedKeys(Len(net))
        /\ FirstPages(Len(net)) =
                IF pc = "batch_page" /\ page = 1
                THEN SubSeq(batches, 1, Len(batches) - 1)
                ELSE batches
        /\ pc = "done" =>
            /\ batches # << >>
            /\ batches[Len(batches)][2] = params.frmdate2

C4_Witness ==
    /\ batch_mode
    /\ pc = "done"
    /\ \E i, j, k, l \in Gets :
        /\ i < j /\ j < k /\ k < l
        /\ net[i].ok /\ net[i].n > 0
        /\ ~net[j].ok
        /\ net[k].ok /\ net[k].n = 0
        /\ Dates(net[k]) # Dates(net[j])
        /\ net[l].ok /\ net[l].n > 0
        /\ Dates(net[l]) # Dates(net[k])

\* C10: between every two consecutive listing GETs there is a sleep.
C10_DelayBetweenListingFetches ==
    \A i \in 1..(Len(net) - 1) : ~(IsGet(net[i]) /\ IsGet(net[i + 1]))

-----------------------------------------------------------------------------
(* Properties of the detail enrichment driver *)

\* The GETs of net, in order.
GetsSeq == SelectSeq(net, IsGet)

\* The number of sleeps in net.
NumSleeps == Cardinality({i \in DOMAIN net : net[i].op = "sleep"})

\* The records among the first k of the input that have a detail link.
Linked(k) == {i \in 1..k : original[i].Detail_URL # << >>}

\* The record has the enrichment fields parse_competitions gave it.
HasDefaults(rec) ==
    /\ \A k \in EnrichmentKeys \ {"Events_Count"} : rec[k] = << >>
    /\ rec.Events_Count = 0

ListingKeys ==
    {"Competition_ID", "Date", "Event", "Location", "Type", "Level",
     "Detail_URL", "Page"}

\* C5: a record without a detail link passes through unchanged: it is at the
\* same position of the output as of the input, equal to what it was, with
\* its enrichment fields at their defaults; no GET has an empty URL, and the
\* GETs issued are those of the linked records processed, in input order.
C5_EmptyUrlPassesThrough ==
    /\ \A i \in DOMAIN updated_competitions :
        original[i].Detail_URL = << >> =>
            /\ updated_competitions[i] = original[i]
            /\ HasDefaults(updated_competitions[i])
    /\ \A k \in DOMAIN GetsSeq : GetsSeq[k].url # << >>
    /\ Len(GetsSeq) = Cardinality(Linked(Len(updated_competitions)))
    /\ pc = "done" => Len(updated_competitions) = Len(original)

C5_Witness ==
    /\ pc = "done"
    /\ Len(original) = 3
    /\ original[2].Detail_URL = << >>
    /\ updated_competitions[2] = original[2]
    /\ updated_competitions[1] # original[1]
    /\ updated_competitions[3] # original[3]
    /\ Len(GetsSeq) = 2

\* C6: a failed detail fetch leaves its record as it was and in the output,
\* is not retried, and does not stop the loop: the output is a prefix of the
\* input in its listing fields, one GET was issued per linked record
\* processed, for that record's URL, and when the function is done the output
\* is as long as the input.
C6_FailedFetchIsSoft ==
    /\ Len(updated_competitions) <= Len(original)
    /\ pc = "done" => Len(updated_competitions) = Len(original)
    /\ Len(GetsSeq) = Cardinality(Linked(Len(updated_competitions)))
    /\ \A i \in DOMAIN updated_competitions :
        /\ \A k \in ListingKeys : updated_competitions[i][k] = original[i][k]
        /\ i \in Linked(i) =>
            /\ GetsSeq[Cardinality(Linked(i))].url = original[i].Detail_URL
            /\ ~GetsSeq[Cardinality(Linked(i))].ok =>
                    updated_competitions[i] = original[i]

C6_Witness ==
    /\ pc = "done"
    /\ Len(original) = 3
    /\ Linked(3) = {1, 3}
    /\ ~GetsSeq[1].ok
    /\ GetsSeq[2].ok
    /\ updated_competitions[1] = original[1]
    /\ updated_competitions[3].Events_Count = 2

\* s.split(sep): the pieces of s between the occurrences of sep, left to right
RECURSIVE Split(_, _)
Split(s, sep) ==
    IF Contains(s, sep)
    THEN <<SubSeq(s, 1, Find(s, sep) - 1)>>
            \o Split(SubSeq(s, Find(s, sep) + Len(sep), Len(s)), sep)
    ELSE <<s>>

\* The number of entries of a "; "-delimited list; the empty string has none.
Entries(list) == IF list = << >> THEN 0 ELSE Len(Split(list, <<";", " ">>))

\* C7: the Events_Count parse_detail_page returns is the number of entries of
\* the Events_List it returns, and every record's Events_Count is the number
\* of entries of its Events_List.
C7_EventsCountMatchesList ==
    /\ pc = "parsed" =>
            detail_data.Events_Count = Entries(detail_data.Events_List)
    /\ \A i \in DOMAIN updated_competitions :
            updated_competitions[i].Events_Count
                = Entries(updated_competitions[i].Events_List)

\* The addresses of the mailto links of a page, inside and outside the
\* practical-info section.
PageAddresses(pg) ==
    {LinkAddress(pg.info[1][i]) :
        i \in {j \in DOMAIN (IF pg.info = << >> THEN << >> ELSE pg.info[1]) :
                    IsMailto(pg.info[1][j])}}
        \cup {Strip(Remove(pg.outside[i], "mailto:")) : i \in DOMAIN pg.outside}

\* C8 as stated: a page that contains a mailto link yields the address of a
\* mailto link of the page as Organizer_Email.
C8_AnyMailtoWins ==
    (pc = "parsed" /\ PageAddresses(html) # {}) =>
        detail_data.Organizer_Email \in PageAddresses(html)

\* The child elements of the practical-info section that are or hold a mailto
\* link with an address.
Addressed(pg) ==
    IF pg.info = << >> THEN {}
    ELSE {i \in DOMAIN pg.info[1] :
            IsMailto(pg.info[1][i]) /\ LinkAddress(pg.info[1][i]) # << >>}

\* C8, amended: when the practical-info section holds a mailto link with a
\* non-empty address, Organizer_Email is the address of the first such link,
\* whatever the paragraphs say; the paragraph scan keeps an address the links
\* gave and the fallback search keeps a non-empty address of either.
C8_SectionMailtoWins ==
    pc = "parsed" =>
        LET nodes == IF html.info = << >> THEN << >> ELSE html.info[1]
            d1    == EmailFromLinks(<< >>, nodes)
            d2    == ScanParagraphs(d1, nodes)
            d3    == FallbackEmail(d2, html.info)
        IN  /\ Addressed(html) # {} =>
                detail_data.Organizer_Email =
                    LinkAddress(nodes[CHOOSE i \in Addressed(html) :
                                        \A j \in Addressed(html) : i <= j])
            /\ "Organizer_Email" \in DOMAIN d1 =>
                d2["Organizer_Email"] = d1["Organizer_Email"]
            /\ ("Organizer_Email" \in DOMAIN d2 /\ d2["Organizer_Email"] # << >>) =>
                d3["Organizer_Email"] = d2["Organizer_Email"]

C8_Witness ==
    /\ pc = "parsed"
    /\ html.info # << >>
    /\ Len(html.info[1]) = 2
    /\ html.info[1][1].tag = "a"
    /\ Addressed(html) = {1}
    /\ html.info[1][2].text = <<<<"Email", " ", ":", " ", "x@y.z">>>>
    /\ detail_data.Organizer_Email = <<"a@b.c">>

\* C9 as stated: when the function is done there have been as many sleeps as
\* input records.
C9_DelayAfterEveryRecord ==
    pc = "done" => NumSleeps = Len(original)

\* C9, amended: there is one sleep per linked record processed and none for a
\* record without a link: every GET is followed at once by a sleep of
\* DEFAULT_DELAY and every sleep follows a GET.
C9_DelayAfterEveryFetchedRecord ==
    /\ NumSleeps = Cardinality(Linked(Len(updated_competitions)))
    /\ \A i \in DOMAIN net :
        IF IsGet(net[i])
        THEN /\ i < Len(net)
             /\ net[i + 1].op = "sleep"
             /\ net[i + 1].secs = DEFAULT_DELAY
        ELSE i > 1 /\ IsGet(net[i - 1])

C9_Witness ==
    /\ pc = "done"
    /\ Len(original) = 3
    /\ Linked(3) = {1, 3}
    /\ NumSleeps = 2
    /\ ~GetsSeq[2].ok

\* The texts of the paragraphs of the practical-info section, in document
\* order.
ParagraphTexts(pg) ==
    LET nodes == IF pg.info = << >> THEN << >> ELSE pg.info[1]
        ps    == SelectSeq(nodes, LAMBDA n : n.tag = "p")
    IN  [i \in DOMAIN ps |-> get_text_strip(ps[i].text)]

LabelledFields ==
    {"Organizer_Name", "Organizer_Address", "Organizer_Phone",
     "Organizer_Website", "Stadium_Address"}

\* The text of a paragraph contains the label of field f.
HasLabel(f, text) ==
    CASE f = "Organizer_Name" ->
            \/ Contains(text, <<"Nom de l(U+2019)organisateur">>)
            \/ Contains(text, <<"Nom de l'organisateur">>)
      [] f = "Organizer_Address" ->
            Contains(text, <<"Adresse">>) /\ ~Contains(Lower(text), <<"stade">>)
      [] f = "Organizer_Phone" -> Contains(text, <<"Téléphone">>)
      [] f = "Organizer_Website" -> Contains(text, <<"Site internet">>)
      [] f = "Stadium_Address" ->
            Contains(text, <<"Adresse", " ", "du", " ", "stade">>)

\* The paragraphs of a page whose text contains the label of field f.
Labelled(f, pg) ==
    {i \in DOMAIN ParagraphTexts(pg) : HasLabel(f, ParagraphTexts(pg)[i])}

\* What the first paragraph labelled for f says after its first colon (a
\* website of "-" counts as none); empty when no paragraph is labelled for f.
FirstLabelledValue(f, pg) ==
    IF Labelled(f, pg) = {} THEN << >>
    ELSE LET first == CHOOSE i \in Labelled(f, pg) : \A j \in Labelled(f, pg) : i <= j
             value == AfterColon(ParagraphTexts(pg)[first])
         IN  IF f = "Organizer_Website" /\ value = <<"-">> THEN << >> ELSE value

\* C11: each of Organizer_Name, Organizer_Address, Organizer_Phone,
\* Organizer_Website and Stadium_Address that parse_detail_page returns is
\* what the FIRST paragraph of the practical-info section containing that
\* field's label says after its first colon, trimmed: later paragraphs with
\* the same label do not change it and another label in the same paragraph
\* does not hide it.
C11_FirstLabelledParagraphWins ==
    pc = "parsed" =>
        \A f \in LabelledFields : detail_data[f] = FirstLabelledValue(f, html)

\* The record at position i has been through its turn of the loop.
Processed(i) == i <= Len(updated_competitions)

\* The record at position i holds the enrichment values of a page the site
\* can answer with.
EnrichedFromAPage(i) ==
    \E r \in DetailResponses :
        /\ r.ok
        /\ \A k \in EnrichmentKeys :
                competitions[i][k] = parse_detail_page(r.page)[k]

\* C12: through an enrichment run every record keeps its eighteen keys and
\* the listing attributes parse_competitions gave it; a record whose turn has
\* not come is as it was passed; a record whose turn has come is what the
\* output holds at its position and is either as it was passed or, when it
\* has a detail link and its one GET succeeded, differs from that in its
\* enrichment attributes only, which are those of the page parsed; one GET
\* is issued per linked record processed, so no record is merged twice.
C12_ListingAttributesImmutable ==
    /\ Len(competitions) = Len(original)
    /\ Len(GetsSeq) = Cardinality(Linked(Len(updated_competitions)))
    /\ \A i \in DOMAIN competitions :
        /\ DOMAIN competitions[i] = ListingKeys \cup EnrichmentKeys
        /\ \A k \in ListingKeys : competitions[i][k] = original[i][k]
        /\ ~Processed(i) => competitions[i] = original[i]
        /\ Processed(i) =>
            /\ updated_competitions[i] = competitions[i]
            /\ \/ competitions[i] = original[i]
               \/ /\ i \in Linked(i)
                  /\ GetsSeq[Cardinality(Linked(i))].ok
                  /\ EnrichedFromAPage(i)

C12_Witness ==
    /\ pc = "done"
    /\ Len(original) = 3
    /\ Linked(3) = {1, 2, 3}
    /\ competitions[1].Events_Count = 2
    /\ competitions[1].Organizer_Name = <<"Club A">>
    /\ competitions[2].Events_Count = 1
    /\ competitions[3] = original[3]
    /\ \A i \in 1..3 : \A k \in ListingKeys : competitions[i][k] = original[i][k]
    /\ original[1].Competition_ID # << >>

\* The span of a batch: the days from its start to its end, counted day by
\* day on the calendar.
BatchSpan(b) == Cardinality(DaysOf(b[1], b[2])) - 1

\* C13: in batch mode, for a range with start <= end and batch_days >= 1,
\* every batch generated has a span from 0 to batch_days days and every batch
\* but the last a span of exactly batch_days; no batch starts after end; the
\* loop is left only when the next start exceeds end, and once the next start
\* exceeds end no pagination is entered again, so there are at most as many
\* batches as days in the range.
C13_BatchSpanBounded ==
    (batch_mode /\ batch_days >= 1 /\ DateLE(params.frmdate1, params.frmdate2)) =>
        /\ \A k \in DOMAIN batches :
            /\ DateLE(batches[k][1], batches[k][2])
            /\ BatchSpan(batches[k]) <= batch_days
            /\ DateLE(batches[k][1], params.frmdate2)
        /\ \A k \in 1..(Len(batches) - 1) : BatchSpan(batches[k]) = batch_days
        /\ pc = "done" => current_start > end_dt
        /\ (pc # "start" /\ current_start > end_dt) => pc \in {"batch_loop", "done"}
        /\ Len(batches) <= BatchSpan(<<params.frmdate1, params.frmdate2>>) + 1

C13_Witness ==
    /\ batch_mode
    /\ pc = "done"
    /\ batch_days = 2
    /\ Len(batches) = 2
    /\ BatchSpan(batches[1]) = 2
    /\ BatchSpan(batches[2]) = 1
    /\ batches[1][1][1] = 2025
    /\ batches[2][2] = params.frmdate2
    /\ current_start > end_dt

=============================================================================
